---------------------------- MODULE Spec2Model ----------------------------
(***************************************************************************)
(* Packet framing and compression layer of the MySQL client driver        *)
(* (packettransceiver.go, zlibcompress_sys.go).                            *)
(*                                                                         *)
(* A writer connection (mc) emits frames onto a byte stream (net); a      *)
(* reader connection (rc) with its decompression arena (pd) consumes them. *)
(* Every handler is one action; its body is a recursive operator that     *)
(* follows the handler's loop.                                             *)
(*                                                                         *)
(* Sizes are scaled: maxPacketSize (2^24-1 in the driver) and              *)
(* minCompressSize (100) keep their order                                  *)
(*   packetHeaderSize < minCompressSize < maxPacketSize                    *)
(* and the 24-bit length fields wrap at maxPacketSize + 1, as 2^24 does.   *)
(* zlib is replaced by a run-length codec, which like zlib may shrink,     *)
(* keep or grow the size of its input.                                     *)
(***************************************************************************)
EXTENDS Integers, Sequences, FiniteSets, TLC

VARIABLES mc, rc, pc, pd, net, tp, lastW, lastR, lastN, ops

vars == <<mc, rc, pc, pd, net, tp, lastW, lastR, lastN, ops>>

(***************************************************************************)
(* Bounds of the model                                                     *)
(***************************************************************************)
\* scaled value of maxPacketSize
MaxPacketScale == 6
\* scaled value of minCompressSize
MinCompressScale == 5
\* scaled value of defaultDecompressBufferSize
ArenaScale == 8
\* largest number of bytes the transport accepts before a faulty write fails
MaxBudget == 14
\* operations per behaviour
MaxOps == 2
\* readNext calls and frame arrivals per behaviour of the arena
MaxArenaOps == 5
\* largest readNext request
MaxNeed == 7
\* frames that may wait unread on the transport
MaxInFlight == 2

(***************************************************************************)
(* Program constants                                                       *)
(***************************************************************************)
packetHeaderSize == 4
compressedHeaderSize == 7
maxPacketSize == MaxPacketScale
minCompressSize == MinCompressScale
defaultDecompressBufferSize == ArenaScale

\* longest logical packet offered: two full frames and a remainder of 2;
\* the connection's max_allowed_packet is one byte less
MaxPayload == 2 * maxPacketSize + 2

(***************************************************************************)
(* Sequences of bytes                                                      *)
(***************************************************************************)
Min(a, b) == IF a <= b THEN a ELSE b

Max(a, b) == IF a >= b THEN a ELSE b

Take(s, n) == SubSeq(s, 1, Min(n, Len(s)))

Drop(s, n) == SubSeq(s, n + 1, Len(s))

\* uint8 increment
Inc8(x) == (x + 1) % 256

\* a 24-bit little-endian field; the field holds values up to maxPacketSize
Le24(n) ==
  LET v == n % (maxPacketSize + 1)
  IN  <<v % 256, (v \div 256) % 256, (v \div 65536) % 256>>

FromLe24(b) == b[1] + 256 * b[2] + 65536 * b[3]

(***************************************************************************)
(* compressedPacketHeader                                                  *)
(***************************************************************************)
CompressedHeader(payload, sequence, uncompressedLength) ==
  Le24(payload) \o <<sequence>> \o Le24(uncompressedLength)

HeaderPayload(h) == FromLe24(SubSeq(h, 1, 3))

HeaderSequence(h) == h[4]

HeaderUncompressedLength(h) == FromLe24(SubSeq(h, 5, 7))

(***************************************************************************)
(* The codec: sysZLibCompressor.compress and sysZLibDecompressor.decompress *)
(* with zlib replaced by run-length coding <<count, byte, count, byte...>>. *)
(***************************************************************************)
RECURSIVE RunLength(_, _)
RunLength(s, i) ==
  IF i < Len(s) /\ s[i + 1] = s[i] THEN 1 + RunLength(s, i + 1) ELSE 1

RECURSIVE compress(_)
compress(input) ==
  IF input = <<>> THEN <<>>
  ELSE LET r == RunLength(input, 1)
       IN  <<r, input[1]>> \o compress(Drop(input, r))

RECURSIVE Inflate(_)
Inflate(input) ==
  IF Len(input) < 2 THEN <<>>
  ELSE [i \in 1..input[1] |-> input[2]] \o Inflate(Drop(input, 2))

\* io.ReadFull(zlibReader, output): fills exactly outLen bytes or fails
decompress(input, outLen) ==
  LET all == Inflate(input)
  IN  IF Len(all) < outLen \/ Len(input) % 2 = 1
      THEN [err |-> "zlib", out |-> <<>>]
      ELSE [err |-> "nil", out |-> Take(all, outLen)]

(***************************************************************************)
(* The transport's write side.  env.budget is the number of bytes the     *)
(* connection still accepts before conn.Write fails (-1: it never fails);  *)
(* env.dlFail is the number of the SetWriteDeadline call that fails (0:    *)
(* none).                                                                  *)
(***************************************************************************)
sendToNetwork(budget, data) ==
  LET n == IF budget < 0 \/ budget >= Len(data) THEN Len(data) ELSE budget
  IN  [n      |-> n,
       err    |-> IF n = Len(data) THEN "nil" ELSE "io",
       budget |-> IF budget < 0 THEN budget ELSE budget - n,
       sent   |-> Take(data, n)]


(***************************************************************************)
(* packetCompressor.writeToBuffer: one outgoing frame in pc.buffer.        *)
(* Returns the buffer and the number of bytes of data the frame carries.   *)
(***************************************************************************)
writeToBufferLiteral(data, sequence) ==
  LET size == IF Len(data) >= maxPacketSize THEN maxPacketSize ELSE Len(data)
  IN  [buffer |-> CompressedHeader(size, sequence, 0) \o Take(data, size),
       n      |-> size]

\* "compression is not helpful": the attempt is discarded
NotHelpful(compressedLength, dataLength) ==
  compressedLength > maxPacketSize \/ compressedLength > dataLength

writeToBuffer(data, sequence, compressIt) ==
  IF ~compressIt THEN writeToBufferLiteral(data, sequence)
  ELSE LET c == compress(data)
       IN  IF NotHelpful(Len(c), Len(data))
           THEN writeToBufferLiteral(data, sequence)
           ELSE [buffer |-> CompressedHeader(Len(c), sequence, Len(data)) \o c,
                 n      |-> Len(data)]

\* the third argument packetCompressor.writePacket passes to writeToBuffer
CompressFlag(remain) == remain < minCompressSize

(***************************************************************************)
(* packetCompressor.writePacket.  st carries the loop's variables and what *)
(* the call has done so far:                                               *)
(*   index, cseq (mc.compressionSequence), budget, dl (SetWriteDeadline    *)
(*   calls made), sent (bytes put on the transport), cframes (frames       *)
(*   written in full), buffer (pc.buffer).                                 *)
(* The result adds n and err, the call's return values.                    *)
(* The loop body is cut in three: fill the buffer (pcWritePacket), arm the *)
(* deadline (pcArm), send and advance (pcSend).  A frame written in full   *)
(* is recorded with data (packet[index:], what writeToBuffer was given),   *)
(* remain (its length) and piece (the bytes the frame carries).            *)
(***************************************************************************)
CFrame(packet, st, wb) ==
  [header |-> Take(wb.buffer, compressedHeaderSize),
   body   |-> Drop(wb.buffer, compressedHeaderSize),
   piece  |-> SubSeq(packet, st.index + 1, st.index + wb.n),
   data   |-> Drop(packet, st.index),
   remain |-> Len(packet) - st.index,
   cseq   |-> st.cseq]

RECURSIVE pcWritePacket(_, _, _)

\* a compressor that does not count the frames it writes
pcSendUncounted(env, packet, st, wb, s) ==
  IF s.err # "nil"
  THEN [st EXCEPT !.budget = s.budget, !.sent = st.sent \o s.sent,
                  !.n = st.index, !.err = s.err]
  ELSE pcWritePacket(env, packet,
         [st EXCEPT !.budget = s.budget, !.sent = st.sent \o s.sent,
                    !.cframes = Append(st.cframes, CFrame(packet, st, wb)),
                    !.index = st.index + wb.n])

pcSend(env, packet, st, wb, s) ==
  IF s.err # "nil"
  THEN [st EXCEPT !.budget = s.budget, !.sent = st.sent \o s.sent,
                  !.n = st.index, !.err = s.err]
  ELSE pcWritePacket(env, packet,
         [st EXCEPT !.budget = s.budget, !.sent = st.sent \o s.sent,
                    !.cframes = Append(st.cframes, CFrame(packet, st, wb)),
                    !.cseq = Inc8(st.cseq),
                    !.index = st.index + wb.n])

pcArm(env, packet, st, wb) ==
  IF env.writeTimeout > 0 /\ st.dl + 1 = env.dlFail
  THEN [st EXCEPT !.buffer = wb.buffer, !.dl = st.dl + 1,
                  !.n = st.index, !.err = "io"]
  ELSE pcSend(env, packet,
              [st EXCEPT !.buffer = wb.buffer,
                         !.dl = IF env.writeTimeout > 0 THEN st.dl + 1 ELSE st.dl],
              wb, sendToNetwork(st.budget, wb.buffer))

pcWritePacket(env, packet, st) ==
  IF st.index >= Len(packet)
  THEN [st EXCEPT !.n = Len(packet), !.err = "nil"]
  ELSE pcArm(env, packet, st,
             writeToBuffer(Drop(packet, st.index), st.cseq,
                           CompressFlag(Len(packet) - st.index)))

(***************************************************************************)
(* packetTransceiver.writePacket                                           *)
(*                                                                         *)
(* ws carries the call: c (the connection), buf (the caller's buffer), off *)
(* (how far data has been re-sliced into buf), pktLen, st (the record of   *)
(* pcWritePacket, which also serves the uncompressed path), frames (the    *)
(* plain frames confirmed written), and the results err and logged.        *)
(***************************************************************************)
\* data[0..3] of the frame being emitted
PlainHeader(pktLen, sequence) ==
  (IF pktLen >= maxPacketSize THEN Le24(maxPacketSize) ELSE Le24(pktLen))
    \o <<sequence>>

FrameSize(pktLen) == IF pktLen >= maxPacketSize THEN maxPacketSize ELSE pktLen

\* the guard of the errBadConnNoWrite return
NothingWrittenYet(n, pktLen, lenData) ==
  n = 0 /\ pktLen = lenData - packetHeaderSize

\* the caller's buffer with data[0..3] set
StampHeader(ws, hdr) ==
  [ws EXCEPT !.buf = [i \in 1..Len(ws.buf) |->
                        IF i > ws.off /\ i <= ws.off + packetHeaderSize
                        THEN hdr[i - ws.off] ELSE ws.buf[i]]]

\* data[:4+size]
Chunk(ws) ==
  SubSeq(ws.buf, ws.off + 1, ws.off + packetHeaderSize + FrameSize(ws.pktLen))

PlainFrame(ws) ==
  [header |-> Take(Chunk(ws), packetHeaderSize),
   body   |-> Drop(Chunk(ws), packetHeaderSize),
   seq    |-> ws.c.sequence]

\* the uncompressed path's sendToNetwork, recorded in st
PlainSend(st, s) ==
  [st EXCEPT !.budget = s.budget, !.sent = st.sent \o s.sent,
             !.n = s.n, !.err = s.err]

RECURSIVE writeLoop(_, _, _)

\* a writer that counts the frame that failed
writeFailedCounting(ws) ==
  [ws EXCEPT !.c.closed = TRUE, !.c.sequence = Inc8(ws.c.sequence),
             !.logged = ws.st.err, !.err = "ErrInvalidConn"]

\* "Handle error": ws.st holds n and err of the frame that failed
writeFailed(ws) ==
  IF ws.st.err = "nil"
  THEN [ws EXCEPT !.c.closed = TRUE,
                  !.logged = "ErrMalformPkt", !.err = "ErrInvalidConn"]
  ELSE IF ws.c.canceled
  THEN [ws EXCEPT !.err = "canceled"]
  ELSE IF NothingWrittenYet(ws.st.n, ws.pktLen, Len(ws.buf) - ws.off)
  THEN [ws EXCEPT !.err = "errBadConnNoWrite"]
  ELSE [ws EXCEPT !.c.closed = TRUE,
                  !.logged = ws.st.err, !.err = "ErrInvalidConn"]

\* a writer that stops as soon as no payload byte remains
writeConfirmedNoTerminator(env, compressIt, ws) ==
  IF ws.pktLen = FrameSize(ws.pktLen)
  THEN [ws EXCEPT !.c.sequence = Inc8(ws.c.sequence),
                  !.frames = Append(ws.frames, PlainFrame(ws)),
                  !.err = "nil"]
  ELSE writeLoop(env, compressIt,
         [ws EXCEPT !.c.sequence = Inc8(ws.c.sequence),
                    !.frames = Append(ws.frames, PlainFrame(ws)),
                    !.pktLen = ws.pktLen - FrameSize(ws.pktLen),
                    !.off = ws.off + FrameSize(ws.pktLen)])

\* the frame was written in full
writeConfirmed(env, compressIt, ws) ==
  IF FrameSize(ws.pktLen) # maxPacketSize
  THEN [ws EXCEPT !.c.sequence = Inc8(ws.c.sequence),
                  !.frames = Append(ws.frames, PlainFrame(ws)),
                  !.err = "nil"]
  ELSE writeLoop(env, compressIt,
         [ws EXCEPT !.c.sequence = Inc8(ws.c.sequence),
                    !.frames = Append(ws.frames, PlainFrame(ws)),
                    !.pktLen = ws.pktLen - FrameSize(ws.pktLen),
                    !.off = ws.off + FrameSize(ws.pktLen)])

\* after the frame went to the transport or through the compressor
writeSent(env, compressIt, ws, st) ==
  IF st.err = "nil" /\ st.n = packetHeaderSize + FrameSize(ws.pktLen)
  THEN writeConfirmed(env, compressIt,
         [ws EXCEPT !.st = st, !.c.compressionSequence = st.cseq])
  ELSE writeFailed([ws EXCEPT !.st = st, !.c.compressionSequence = st.cseq])

\* ws.buf holds the frame's header
writeFrame(env, compressIt, ws) ==
  IF compressIt
  THEN writeSent(env, compressIt, ws,
         pcWritePacket(env, Chunk(ws),
           [ws.st EXCEPT !.index = 0, !.cseq = ws.c.compressionSequence]))
  ELSE IF env.writeTimeout > 0 /\ ws.st.dl + 1 = env.dlFail
  THEN [ws EXCEPT !.st.dl = ws.st.dl + 1, !.err = "io"]
  ELSE writeSent(env, compressIt, ws,
         PlainSend([ws.st EXCEPT !.dl = IF env.writeTimeout > 0
                                        THEN ws.st.dl + 1 ELSE ws.st.dl],
                   sendToNetwork(ws.st.budget, Chunk(ws))))

writeLoop(env, compressIt, ws) ==
  writeFrame(env, compressIt,
             StampHeader(ws, PlainHeader(ws.pktLen, ws.c.sequence)))

\* The stale-connection check of a connection with mc.reset set
\* (env.rdlFail: SetReadDeadline fails; env.probeFail: connCheck fails).
StaleCheckErr(c, env) ==
  IF c.readTimeout # 0 /\ env.rdlFail THEN "io"
  ELSE IF c.checkConnLiveness /\ env.probeFail THEN "stale"
  ELSE "nil"

\* whether connCheck runs
ProbeRuns(c, env) ==
  c.checkConnLiveness /\ ~(c.readTimeout # 0 /\ env.rdlFail)

\* a check that goes on writing after a failed probe
staleCheckIgnored(env, compressIt, ws) ==
  writeLoop(env, compressIt,
    [ws EXCEPT !.c.reset = FALSE,
               !.rdlCleared = ws.c.readTimeout # 0,
               !.probed = ProbeRuns(ws.c, env)])

staleCheck(env, compressIt, ws) ==
  IF StaleCheckErr(ws.c, env) # "nil"
  THEN [ws EXCEPT !.c.reset = FALSE, !.c.closed = TRUE,
                  !.rdlCleared = ws.c.readTimeout # 0,
                  !.probed = ProbeRuns(ws.c, env),
                  !.logged = StaleCheckErr(ws.c, env),
                  !.err = "ErrBadConn"]
  ELSE writeLoop(env, compressIt,
         [ws EXCEPT !.c.reset = FALSE,
                    !.rdlCleared = ws.c.readTimeout # 0,
                    !.probed = ProbeRuns(ws.c, env)])

\* the call's record before anything is done
WriteStart(c, buffer, payload, transport) ==
  [c |-> c, buf |-> <<0, 0, 0, 0>> \o payload, off |-> 0,
   pktLen |-> Len(payload),
   st |-> [index |-> 0, cseq |-> c.compressionSequence,
           budget |-> transport.budget, dl |-> 0, sent |-> <<>>,
           cframes |-> <<>>, buffer |-> buffer, n |-> 0, err |-> "nil"],
   frames |-> <<>>, probed |-> FALSE, rdlCleared |-> FALSE,
   logged |-> "nil", err |-> "nil"]

WriteEnv(c, transport) ==
  [budget |-> transport.budget, dlFail |-> transport.dlFail,
   rdlFail |-> transport.rdlFail, probeFail |-> transport.probeFail,
   writeTimeout |-> c.writeTimeout]

\* a writer that runs the stale check before the size check
writePacketFromChecked(env, compressIt, ws) ==
  IF ws.c.reset
  THEN staleCheck(env, compressIt, ws)
  ELSE IF ws.pktLen > ws.c.maxAllowedPacket
  THEN [ws EXCEPT !.err = "ErrPktTooLarge"]
  ELSE writeLoop(env, compressIt, ws)

writePacketFrom(env, compressIt, ws) ==
  IF ws.pktLen > ws.c.maxAllowedPacket
  THEN [ws EXCEPT !.err = "ErrPktTooLarge"]
  ELSE IF ws.c.reset
  THEN staleCheck(env, compressIt, ws)
  ELSE writeLoop(env, compressIt, ws)

writePacket(c, buffer, payload, compressIt, transport) ==
  writePacketFrom(WriteEnv(c, transport), compressIt,
                  WriteStart(c, buffer, payload, transport))

(***************************************************************************)
(* The transport's read side: mc.buf.readNext(need) hands out the next     *)
(* need bytes of the stream, or fails when the stream ends before them.    *)
(***************************************************************************)
bufReadNext(stream, need) ==
  IF Len(stream) < need
  THEN [err |-> "io", data |-> <<>>, net |-> stream]
  ELSE [err |-> "nil", data |-> Take(stream, need), net |-> Drop(stream, need)]

(***************************************************************************)
(* packetDecompressor.  The arena a is [buffer, index, cap, isNil]: buffer *)
(* holds the len(pd.buffer) bytes, cap is cap(pd.buffer).                  *)
(***************************************************************************)
\* an arena that never discards the bytes already served
growAppending(a, dataLength) ==
  IF Len(a.buffer) + dataLength > a.cap
  THEN [a EXCEPT !.cap = Len(a.buffer) + dataLength]
  ELSE a

\* a compaction that moves the cursor but not the bytes
growNoShift(a, dataLength) ==
  IF Len(a.buffer) + dataLength > a.cap
  THEN [a EXCEPT !.index = 0,
                 !.cap = Max(a.cap, Len(a.buffer) + dataLength)]
  ELSE a

\* a compaction that moves the bytes but not the cursor
growKeepsIndex(a, dataLength) ==
  IF Len(a.buffer) + dataLength > a.cap
  THEN [a EXCEPT !.buffer = Drop(a.buffer, a.index),
                 !.cap = Max(a.cap, Len(a.buffer) - a.index + dataLength)]
  ELSE a

grow(a, dataLength) ==
  IF Len(a.buffer) + dataLength > a.cap
  THEN IF Len(a.buffer) - a.index + dataLength <= a.cap
       THEN [a EXCEPT !.buffer = Drop(a.buffer, a.index), !.index = 0]
       ELSE [a EXCEPT !.buffer = Drop(a.buffer, a.index), !.index = 0,
                      !.cap = Len(a.buffer) - a.index + dataLength]
  ELSE a

\* "If no data in the buffer, shrink it", after the lazy allocation
ArenaPrepare(a) ==
  LET a1 == IF a.isNil
            THEN [a EXCEPT !.isNil = FALSE, !.cap = defaultDecompressBufferSize]
            ELSE a
  IN  IF a1.index > 0 /\ a1.index = Len(a1.buffer)
      THEN [a1 EXCEPT !.index = 0, !.buffer = <<>>]
      ELSE a1

\* a comparison that takes the difference modulo 256
SyncErrorModulo(got, expected) ==
  IF got = expected THEN "nil"
  ELSE IF (got - expected) % 256 < 128 THEN "ErrPktSyncMul" ELSE "ErrPktSync"

\* "Check sync sequence" of decompressPacket and "check packet sync" of
\* readPacket: the comparison of two uint8 values
SyncError(got, expected) ==
  IF got = expected THEN "nil"
  ELSE IF got > expected THEN "ErrPktSyncMul" ELSE "ErrPktSync"

\* r is [c, a, net, err, ...]: the connection, the arena, the unread
\* stream.  decompressPacket is cut at its two reads of the transport.

\* "Decompress data" and "Reset buffer length"
dpInflate(r, z) ==
  IF z.err # "nil" THEN [r EXCEPT !.err = z.err]
  ELSE [r EXCEPT !.a.buffer = r.a.buffer \o z.out, !.err = "nil"]

\* after the body read d; length is the header's uncompressed length
dpBody(r, length, d) ==
  IF d.err # "nil" THEN [r EXCEPT !.err = d.err]
  ELSE IF length = 0
  THEN [r EXCEPT !.net = d.net,
                 !.a = [grow(r.a, Len(d.data)) EXCEPT
                          !.buffer = @ \o d.data],
                 !.err = "nil"]
  ELSE dpInflate([r EXCEPT !.net = d.net, !.a = grow(r.a, length)],
                 decompress(d.data, length))

\* a decompressor that does not count the frames it takes
dpHeaderUncounted(r, h) ==
  IF h.err # "nil" THEN [r EXCEPT !.err = h.err]
  ELSE IF SyncError(HeaderSequence(h.data), r.c.compressionSequence) # "nil"
  THEN [r EXCEPT !.net = h.net,
                 !.err = SyncError(HeaderSequence(h.data),
                                   r.c.compressionSequence)]
  ELSE dpBody([r EXCEPT !.net = h.net],
              HeaderUncompressedLength(h.data),
              bufReadNext(h.net, HeaderPayload(h.data)))

\* after the header read h
dpHeader(r, h) ==
  IF h.err # "nil" THEN [r EXCEPT !.err = h.err]
  ELSE IF SyncError(HeaderSequence(h.data), r.c.compressionSequence) # "nil"
  THEN [r EXCEPT !.net = h.net,
                 !.err = SyncError(HeaderSequence(h.data),
                                   r.c.compressionSequence)]
  ELSE dpBody([r EXCEPT !.net = h.net,
                        !.c.compressionSequence = Inc8(@)],
              HeaderUncompressedLength(h.data),
              bufReadNext(h.net, HeaderPayload(h.data)))

decompressPacket(r) ==
  dpHeader([r EXCEPT !.a = ArenaPrepare(r.a)],
           bufReadNext(r.net, compressedHeaderSize))

\* whether readNext has to pull a frame
MustPull(a, need) == Len(a.buffer) - a.index < need

\* the loop of readNext: pull frames until need bytes are pending
RECURSIVE pullFrames(_, _)

pullMore(r, need) ==
  IF r.err # "nil" THEN r
  ELSE IF ~MustPull(r.a, need) THEN r
  ELSE pullFrames(r, need)

pullFrames(r, need) == pullMore(decompressPacket(r), need)

\* the slice handed out; the result adds data
pdSlice(r, need) ==
  IF r.err # "nil" THEN [r EXCEPT !.data = <<>>]
  ELSE [r EXCEPT !.data = SubSeq(r.a.buffer, r.a.index + 1, r.a.index + need),
                 !.a.index = r.a.index + need]

pdReadNext(r, need) ==
  pdSlice(IF MustPull(r.a, need) THEN pullFrames(r, need)
          ELSE [r EXCEPT !.err = "nil"],
          need)

(***************************************************************************)
(* packetTransceiver.readPacket                                            *)
(*                                                                         *)
(* r adds prevNil and prevData (the accumulated fragments), fragments      *)
(* (their count), cause (the error underneath the one returned), logged.   *)
(***************************************************************************)
\* a plain read that counts a compressed frame
plainReadCounting(r, b) ==
  [r EXCEPT !.err = b.err, !.data = b.data, !.net = b.net,
            !.c.compressionSequence = Inc8(r.c.compressionSequence)]

\* the transceiver's read from the transport itself
plainRead(r, b) == [r EXCEPT !.err = b.err, !.data = b.data, !.net = b.net]

\* one read of the transceiver: through the arena or from the transport
readBytes(r, compressIt, need) ==
  IF compressIt THEN pdReadNext(r, need)
  ELSE plainRead(r, bufReadNext(r.net, need))

\* a failed read: the cancellation cause, or Close and ErrInvalidConn
ReadFailed(r) ==
  IF r.c.canceled
  THEN [r EXCEPT !.data = <<>>, !.cause = r.err, !.err = "canceled"]
  ELSE [r EXCEPT !.data = <<>>, !.cause = r.err, !.logged = r.err,
                 !.c.closed = TRUE, !.err = "ErrInvalidConn"]

\* a rejection that counts the rejected frame
SyncFailedAdvancing(r, se) ==
  [r EXCEPT !.data = <<>>, !.cause = se, !.err = se,
            !.c.sequence = Inc8(r.c.sequence)]

\* what readPacket does on a protocol sequence mismatch
SyncFailed(r, se) ==
  [r EXCEPT !.data = <<>>, !.cause = se, !.err = se]

\* a reader that accepts every frame of declared length 0
ZeroLengthAccepted(r) ==
  [r EXCEPT !.data = r.prevData, !.err = "nil"]

\* a frame of declared length 0
ZeroLength(r) ==
  IF r.prevNil
  THEN [r EXCEPT !.data = <<>>, !.cause = "ErrMalformPkt",
                 !.logged = "ErrMalformPkt",
                 !.c.closed = TRUE, !.err = "ErrInvalidConn"]
  ELSE [r EXCEPT !.data = r.prevData, !.err = "nil"]

RECURSIVE readLoop(_, _)

\* a reader that puts the last fragment in front of the accumulation
readBodyReversed(b, compressIt, pktLen) ==
  IF b.err # "nil" THEN ReadFailed(b)
  ELSE IF pktLen < maxPacketSize
  THEN IF b.prevNil
       THEN [b EXCEPT !.err = "nil"]
       ELSE [b EXCEPT !.data = b.data \o b.prevData, !.err = "nil"]
  ELSE readLoop([b EXCEPT !.prevData = b.prevData \o b.data,
                          !.prevNil = (b.prevData \o b.data = <<>>),
                          !.fragments = b.fragments + 1],
                compressIt)

\* after the body read b of a frame of declared length pktLen
readBody(b, compressIt, pktLen) ==
  IF b.err # "nil" THEN ReadFailed(b)
  ELSE IF pktLen < maxPacketSize
  THEN IF b.prevNil
       THEN [b EXCEPT !.err = "nil"]
       ELSE [b EXCEPT !.data = b.prevData \o b.data, !.err = "nil"]
  ELSE readLoop([b EXCEPT !.prevData = b.prevData \o b.data,
                          !.prevNil = (b.prevData \o b.data = <<>>),
                          !.fragments = b.fragments + 1],
                compressIt)

\* after the header read h
readHeader(h, compressIt) ==
  IF h.err # "nil" THEN ReadFailed(h)
  ELSE IF SyncError(h.data[4], h.c.sequence) # "nil"
  THEN SyncFailed(h, SyncError(h.data[4], h.c.sequence))
  ELSE IF FromLe24(h.data) = 0
  THEN ZeroLength([h EXCEPT !.c.sequence = Inc8(@)])
  ELSE readBody(readBytes([h EXCEPT !.c.sequence = Inc8(@)], compressIt,
                          FromLe24(h.data)),
                compressIt, FromLe24(h.data))

readLoop(r, compressIt) ==
  readHeader(readBytes(r, compressIt, packetHeaderSize), compressIt)

ReadStart(c, a, stream) ==
  [c |-> c, a |-> a, net |-> stream, err |-> "nil", data |-> <<>>,
   prevNil |-> TRUE, prevData |-> <<>>, fragments |-> 0,
   cause |-> "nil", logged |-> "nil"]

readPacket(c, a, stream, compressIt) ==
  readLoop(ReadStart(c, a, stream), compressIt)

(***************************************************************************)
(* State                                                                   *)
(*   mc    the writing connection: sequence, compressionSequence, reset    *)
(*         (the stale flag), closed, canceled, and its configuration       *)
(*   rc    the reading connection (the peer's mysqlConn)                   *)
(*   pc    the compression buffer pc.buffer of the writer                  *)
(*   pd    the decompression arena of the reader                           *)
(*   net   the bytes written by mc and not yet read by rc                  *)
(*   tp    what the writer's transport will do: budget, dlFail, rdlFail,   *)
(*         probeFail                                                       *)
(*   lastW, lastR, lastN  the arguments, the state before and the results  *)
(*         of the last writePacket, readPacket and readNext call           *)
(***************************************************************************)
NoCall == [op |-> "none", err |-> "none"]

EmptyArena == [buffer |-> <<>>, index |-> 0, cap |-> 0, isNil |-> TRUE]

\* starting values of <<sequence, compressionSequence>>
StartSequences == {<<0, 0>>, <<254, 253>>, <<1, 255>>}

\* payloads: zeros (one run) and a ramp (no two bytes equal)
Patterns == {"zero", "ramp"}

Payload(len, pattern) ==
  [i \in 1..len |-> IF pattern = "zero" THEN 0 ELSE 16 + i]

Payloads == {Payload(len, p) : len \in 0..MaxPayload, p \in Patterns}

\* the lengths of the packets that follow the first one
FollowUpLengths == {1, maxPacketSize}

Config(wt, rt, live) ==
  [writeTimeout |-> wt, readTimeout |-> rt, checkConnLiveness |-> live]

NoFault == [budget |-> -1, dlFail |-> 0, rdlFail |-> FALSE, probeFail |-> FALSE]

\* A scenario is a configuration of the writing connection, what its
\* transport will do, and whether its cancellation cause is set when a
\* failed write consults it.
Quiet == {[cfg |-> Config(wt, 0, FALSE), tp |-> NoFault, cancel |-> FALSE] :
            wt \in {0, 1}}

Scenarios ==
  {[cfg |-> Config(wt, rt, live), tp |-> NoFault, cancel |-> FALSE] :
     wt \in {0, 1}, rt \in {0, 1}, live \in BOOLEAN}
    \cup {[cfg |-> Config(0, 0, FALSE), tp |-> [NoFault EXCEPT !.budget = b],
           cancel |-> x] : b \in 0..MaxBudget, x \in BOOLEAN}
    \cup {[cfg |-> Config(1, 0, FALSE), tp |-> [NoFault EXCEPT !.dlFail = k],
           cancel |-> x] : k \in 1..2, x \in BOOLEAN}
    \cup {[cfg |-> Config(0, 1, live), tp |-> [NoFault EXCEPT !.rdlFail = TRUE],
           cancel |-> FALSE] : live \in BOOLEAN}
    \cup {[cfg |-> Config(0, rt, TRUE), tp |-> [NoFault EXCEPT !.probeFail = TRUE],
           cancel |-> FALSE] : rt \in {0, 1}}

Connection(s, cfg, cancel) ==
  [sequence |-> s[1], compressionSequence |-> s[2],
   reset |-> FALSE, closed |-> FALSE, canceled |-> cancel,
   writeTimeout |-> cfg.writeTimeout, maxAllowedPacket |-> MaxPayload - 1,
   readTimeout |-> cfg.readTimeout,
   checkConnLiveness |-> cfg.checkConnLiveness]

Peer(s) ==
  [sequence |-> s[1], compressionSequence |-> s[2],
   closed |-> FALSE, canceled |-> FALSE]

Start(seqs, scenarios) ==
  /\ \E s \in seqs, sc \in scenarios :
       /\ mc = Connection(s, sc.cfg, sc.cancel)
       /\ rc = Peer(s)
       /\ tp = sc.tp
  /\ pc = <<>>
  /\ pd = EmptyArena
  /\ net = <<>>
  /\ lastW = NoCall
  /\ lastR = NoCall
  /\ lastN = NoCall
  /\ ops = 0

\* a writer on a sound transport and its peer
Init == Start(StartSequences, Quiet)

\* a writer on a transport that may fail
InitFault == Start({<<254, 253>>}, Scenarios)

(***************************************************************************)
(* Actions                                                                 *)
(***************************************************************************)
\* errors after which the caller keeps using the connection
Usable(err) == err \in {"none", "nil", "ErrPktTooLarge"}

\* what is left of the transport's plan after a call that armed the write
\* deadline dl times and ran the stale check or not
TransportAfter(w, checked) ==
  [budget    |-> w.st.budget,
   dlFail    |-> IF tp.dlFail > w.st.dl THEN tp.dlFail - w.st.dl ELSE 0,
   rdlFail   |-> tp.rdlFail /\ ~checked,
   probeFail |-> tp.probeFail /\ ~checked]

\* the state after the call w of writePacket
Written(payload, compressIt, w) ==
  /\ mc' = w.c
  /\ pc' = w.st.buffer
  /\ net' = net \o w.st.sent
  /\ tp' = TransportAfter(w, mc.reset /\ w.err # "ErrPktTooLarge")
  /\ lastW' = [op |-> "write", payload |-> payload,
               compress |-> compressIt, pre |-> mc, preBuffer |-> pc,
               err |-> w.err, logged |-> w.logged,
               frames |-> w.frames, cframes |-> w.st.cframes,
               sent |-> w.st.sent, buf |-> w.buf,
               probed |-> w.probed, rdlCleared |-> w.rdlCleared,
               armed |-> w.st.dl]
  /\ lastR' = NoCall
  /\ ops' = ops + 1
  /\ UNCHANGED <<rc, pd, lastN>>

\* the caller writes one logical packet
WritePacket(payload, compressIt) ==
  /\ ops < MaxOps
  /\ ~mc.closed
  /\ Usable(lastW.err)
  /\ lastW.op = "write" => compressIt = lastW.compress
  /\ ops > 0 => Len(payload) \in FollowUpLengths
  /\ Written(payload, compressIt, writePacket(mc, pc, payload, compressIt, tp))

\* the state after the call r of readPacket on the connection c
HasRead(c, compressIt, r) ==
  /\ rc' = r.c
  /\ pd' = r.a
  /\ net' = r.net
  /\ lastR' = [op |-> "read", compress |-> compressIt,
               pre |-> c, preArena |-> pd, preNet |-> net,
               err |-> r.err, cause |-> r.cause, logged |-> r.logged,
               data |-> r.data, fragments |-> r.fragments]
  /\ UNCHANGED <<mc, pc, tp, lastW, lastN, ops>>

\* the peer reads one logical packet with the writer's compression setting;
\* cancel: the reader's cancellation cause is set by the time a read fails
ReadPacket(cancel) ==
  /\ lastW.op = "write"
  /\ lastR.op = "none"
  /\ ~rc.closed
  /\ cancel =>
       readPacket([rc EXCEPT !.canceled = TRUE], pd, net, lastW.compress).err
         = "canceled"
  /\ HasRead([rc EXCEPT !.canceled = cancel], lastW.compress,
             readPacket([rc EXCEPT !.canceled = cancel], pd, net,
                        lastW.compress))

\* the connection goes back to the pool and is checked out again
\* (ResetSession sets mc.reset)
MarkStale ==
  /\ ~mc.reset
  /\ ~mc.closed
  /\ Usable(lastW.err)
  /\ ops < MaxOps
  /\ mc' = [mc EXCEPT !.reset = TRUE]
  /\ UNCHANGED <<rc, pc, pd, net, tp, lastW, lastR, lastN, ops>>

Next ==
  \/ \E payload \in Payloads, compressIt \in BOOLEAN :
       WritePacket(payload, compressIt)
  \/ \E cancel \in BOOLEAN : ReadPacket(cancel)

Spec == Init /\ [][Next]_vars

NextFault ==
  \/ \E payload \in Payloads, compressIt \in BOOLEAN :
       WritePacket(payload, compressIt)
  \/ MarkStale

SpecFault == InitFault /\ [][NextFault]_vars

\* a writer on a transport that may fail, and its peer reading what the
\* writer managed to send
NextLink ==
  \/ \E payload \in Payloads, compressIt \in BOOLEAN :
       WritePacket(payload, compressIt)
  \/ MarkStale
  \/ \E cancel \in BOOLEAN : ReadPacket(cancel)

SpecLink == InitFault /\ [][NextLink]_vars

(***************************************************************************)
(* A peer whose counters may be out of step with the reader's.  The        *)
(* reader expects every value of the 8-bit counters.                       *)
(***************************************************************************)
SyncPayloads == {Payload(1, "ramp"), Payload(maxPacketSize, "zero")}

\* by how much the peer's <<sequence, compressionSequence>> get ahead
Skews == {<<1, 0>>, <<255, 0>>, <<0, 1>>, <<0, 255>>}

InitSync ==
  /\ \E e \in 0..255 :
       /\ mc = Connection(<<e, (e + 100) % 256>>, Config(0, 0, FALSE), FALSE)
       /\ rc = Peer(<<e, (e + 100) % 256>>)
  /\ tp = NoFault
  /\ pc = <<>>
  /\ pd = EmptyArena
  /\ net = <<>>
  /\ lastW = NoCall
  /\ lastR = NoCall
  /\ lastN = NoCall
  /\ ops = 0

\* the peer starts its next packet with counters the reader does not expect
Skew(d) ==
  /\ ops < MaxOps
  /\ net = <<>>
  /\ ~rc.closed
  /\ mc.sequence = rc.sequence
  /\ mc.compressionSequence = rc.compressionSequence
  /\ mc' = [mc EXCEPT !.sequence = (@ + d[1]) % 256,
                      !.compressionSequence = (@ + d[2]) % 256]
  /\ UNCHANGED <<rc, pc, pd, net, tp, lastW, lastR, lastN, ops>>

\* the peer sends one packet once the reader has taken the one before
Send(payload, compressIt) ==
  /\ net = <<>>
  /\ ~rc.closed
  /\ WritePacket(payload, compressIt)

NextSync ==
  \/ \E d \in Skews : Skew(d)
  \/ \E payload \in SyncPayloads, compressIt \in BOOLEAN :
       Send(payload, compressIt)
  \/ \E cancel \in BOOLEAN : ReadPacket(cancel)

SpecSync == InitSync /\ [][NextSync]_vars

(***************************************************************************)
(* The Packet Decompressor on its own: frames arrive on the transport and  *)
(* readNext is called with arbitrary requests.  mc.compressionSequence is  *)
(* the sender's counter, rc.compressionSequence the one readNext expects.  *)
(* lastN records the last readNext call and, across calls:                 *)
(*   due      the uncompressed bytes that arrived and were not yet served  *)
(*   inOrder  every slice served so far was the head of due                *)
(*   maxNeed  the largest request so far                                   *)
(*   peak     the largest number of pending bytes held after a pull        *)
(*   lost     the transport carries a frame that cannot be read            *)
(***************************************************************************)
\* the bodies that arrive
Pieces == {Payload(len, p) : len \in {1, 5}, p \in Patterns}

\* how a body is framed: literal, compressed, literal with its last byte
\* missing (the transport then ends), compressed with a wrong declared length
Framings == {"literal", "compressed", "truncated", "corrupt"}

Frame(piece, sequence, framing) ==
  IF framing = "literal"
  THEN CompressedHeader(Len(piece), sequence, 0) \o piece
  ELSE IF framing = "truncated"
  THEN CompressedHeader(Len(piece), sequence, 0) \o Take(piece, Len(piece) - 1)
  ELSE IF framing = "compressed"
  THEN CompressedHeader(Len(compress(piece)), sequence, Len(piece))
         \o compress(piece)
  ELSE CompressedHeader(Len(compress(piece)), sequence, Len(piece) + 1)
         \o compress(piece)

NoReadNext ==
  [op |-> "none", err |-> "none", need |-> 0, data |-> <<>>,
   preArena |-> EmptyArena, pulled |-> FALSE, due |-> <<>>,
   inOrder |-> TRUE, maxNeed |-> 0, peak |-> 0, lost |-> FALSE,
   inFlight |-> 0]

InitArena ==
  /\ \E s \in {<<0, 0>>, <<0, 254>>} :
       /\ mc = Connection(s, Config(0, 0, FALSE), FALSE)
       /\ rc = Peer(s)
  /\ tp = NoFault
  /\ pc = <<>>
  /\ pd = EmptyArena
  /\ net = <<>>
  /\ lastW = NoCall
  /\ lastR = NoCall
  /\ lastN = NoReadNext
  /\ ops = 0

\* a correctly sequenced frame arrives on the transport
Arrive(piece, framing) ==
  /\ ops < MaxArenaOps
  /\ lastN.err \in {"none", "nil"}
  /\ ~lastN.lost
  /\ lastN.inFlight < MaxInFlight
  /\ framing \in {"compressed", "corrupt"} =>
       Len(compress(piece)) <= maxPacketSize
  /\ net' = net \o Frame(piece, mc.compressionSequence, framing)
  /\ mc' = [mc EXCEPT !.compressionSequence = Inc8(@)]
  /\ lastN' = [lastN EXCEPT
                 !.due = IF framing \in {"literal", "compressed"}
                         THEN lastN.due \o piece ELSE lastN.due,
                 !.lost = framing \in {"truncated", "corrupt"},
                 !.inFlight = lastN.inFlight + 1]
  /\ ops' = ops + 1
  /\ UNCHANGED <<rc, pc, pd, tp, lastW, lastR>>

\* the state after the call r of readNext(need)
HasReadNext(need, r) ==
  /\ rc' = r.c
  /\ pd' = r.a
  /\ net' = r.net
  /\ lastN' = [op |-> "readNext", err |-> r.err, need |-> need,
               data |-> r.data, preArena |-> pd,
               pulled |-> r.net # net,
               due |-> IF r.err = "nil" THEN Drop(lastN.due, need)
                       ELSE lastN.due,
               inOrder |-> lastN.inOrder
                             /\ (r.err = "nil" =>
                                   r.data = Take(lastN.due, need)
                                   /\ Len(r.data) = need),
               maxNeed |-> Max(lastN.maxNeed, need),
               peak |-> Max(lastN.peak,
                            Len(r.a.buffer) - r.a.index
                              + (IF r.err = "nil" THEN need ELSE 0)),
               lost |-> lastN.lost,
               inFlight |-> IF r.net = <<>> THEN 0 ELSE lastN.inFlight]
  /\ ops' = ops + 1
  /\ UNCHANGED <<mc, pc, tp, lastW, lastR>>

\* the transceiver asks the decompressor for the next need bytes
ReadNext(need) ==
  /\ ops < MaxArenaOps
  /\ lastN.err \in {"none", "nil"}
  /\ HasReadNext(need, pdReadNext(ReadStart(rc, pd, net), need))

NextArena ==
  \/ \E piece \in Pieces, framing \in Framings : Arrive(piece, framing)
  \/ \E need \in 0..MaxNeed : ReadNext(need)

SpecArena == InitArena /\ [][NextArena]_vars

(***************************************************************************)
(* Properties                                                              *)
(***************************************************************************)
Wrote == lastW.op = "write"

WroteOk == Wrote /\ lastW.err = "nil"

HasReadPacket == lastR.op = "read"

\* the last readPacket was fed exactly the frames of the last successful
\* writePacket, with the same compression setting, the same starting
\* sequence counters and nothing pending in the arena
Paired ==
  /\ HasReadPacket
  /\ WroteOk
  /\ lastR.preNet = lastW.sent
  /\ lastR.compress = lastW.compress
  /\ lastR.pre.sequence = lastW.pre.sequence
  /\ lastR.pre.compressionSequence = lastW.pre.compressionSequence
  /\ lastR.preArena.index = Len(lastR.preArena.buffer)

DeclaredLength(frame) == FromLe24(frame.header)

IsCompressed(cframe) == HeaderUncompressedLength(cframe.header) # 0

\* C1 as stated: the round trip returns the payload written, for every
\* payload length and both compression settings.
C1_RoundTripEveryLength ==
  Paired => lastR.err = "nil" /\ lastR.data = lastW.payload

\* C1 amended: the round trip returns the payload written, for every
\* payload length of at least 1 and both compression settings.
C1_RoundTrip ==
  Paired /\ Len(lastW.payload) >= 1 =>
    lastR.err = "nil" /\ lastR.data = lastW.payload

\* a packet of two full frames and a terminator went through the
\* compressor, one of its frames compressed, and came back
C1_Witness ==
  /\ Paired
  /\ lastW.compress
  /\ Len(lastW.payload) = 2 * maxPacketSize
  /\ \E i \in 1..Len(lastW.cframes) : IsCompressed(lastW.cframes[i])
  /\ lastR.data = lastW.payload

\* C2: a successful writePacket of a packet of length k*maxPacketSize + r
\* (0 <= r < maxPacketSize) emits k frames declaring maxPacketSize and
\* then one frame declaring r: the zero-length frame when r = 0 and k >= 1,
\* and no zero-length frame when r > 0.
C2_Split ==
  WroteOk =>
    LET k == Len(lastW.payload) \div maxPacketSize
        r == Len(lastW.payload) % maxPacketSize
    IN  /\ Len(lastW.frames) = k + 1
        /\ \A i \in 1..k :
             /\ DeclaredLength(lastW.frames[i]) = maxPacketSize
             /\ Len(lastW.frames[i].body) = maxPacketSize
        /\ DeclaredLength(lastW.frames[k + 1]) = r
        /\ Len(lastW.frames[k + 1].body) = r

C2_Witness ==
  /\ WroteOk
  /\ Len(lastW.payload) = 2 * maxPacketSize
  /\ Len(lastW.frames) = 3
  /\ DeclaredLength(lastW.frames[3]) = 0

\* C3 as stated: a piece shorter than minCompressSize goes out literal.
C3_SmallPieceLiteral ==
  Wrote =>
    \A i \in 1..Len(lastW.cframes) :
      lastW.cframes[i].remain < minCompressSize =>
        /\ ~IsCompressed(lastW.cframes[i])
        /\ lastW.cframes[i].body = lastW.cframes[i].data

\* C4 as stated: a compressed frame's body is strictly smaller than the
\* piece it encodes and no larger than maxPacketSize.
C4_CompressedIsSmaller ==
  Wrote =>
    \A i \in 1..Len(lastW.cframes) :
      IsCompressed(lastW.cframes[i]) =>
        /\ Len(lastW.cframes[i].body) < Len(lastW.cframes[i].piece)
        /\ Len(lastW.cframes[i].body) <= maxPacketSize

\* C5 as stated: a piece of at least minCompressSize bytes whose encoding is
\* strictly smaller than the piece and at most maxPacketSize goes out
\* compressed, the header carrying both lengths.
C5_LargePieceCompressed ==
  Wrote =>
    \A i \in 1..Len(lastW.cframes) :
      LET f == lastW.cframes[i]
      IN  /\ f.remain >= minCompressSize
          /\ Len(compress(f.data)) < Len(f.data)
          /\ Len(compress(f.data)) <= maxPacketSize
          => /\ HeaderPayload(f.header) = Len(compress(f.data))
             /\ HeaderUncompressedLength(f.header) = Len(f.data)
             /\ f.body = compress(f.data)

Pending(a) == Drop(a.buffer, a.index)

\* uint8 decrement
Dec8(x) == (x + 255) % 256

SyncErrors == {"ErrPktSync", "ErrPktSyncMul"}

\* readPacket rejected a frame for its protocol sequence
ProtocolMismatch == HasReadPacket /\ lastR.err \in SyncErrors

\* the Packet Decompressor rejected a frame for its compression sequence
CompressionMismatch ==
  HasReadPacket /\ lastR.err \notin SyncErrors /\ lastR.cause \in SyncErrors

\* the last readPacket started on the frames of the last writePacket
FreshRead == HasReadPacket /\ WroteOk /\ lastR.preNet = lastW.sent

\* the protocol sequence byte of the first plain frame the reader met
FrameSeq == lastW.frames[1].seq

\* the sequence byte of the first frame on the transport
TransportSeq == lastR.preNet[4]

\* the arena held no pending byte when the last readPacket started
Aligned == Pending(lastR.preArena) = <<>>

\* the first plain frame reaches the protocol check
ReachesProtocolCheck ==
  /\ FreshRead
  /\ lastR.compress =>
       TransportSeq = lastR.pre.compressionSequence /\ Aligned

\* the first compressed frame reaches the decompressor's check
ReachesCompressionCheck ==
  FreshRead /\ lastR.compress /\ MustPull(lastR.preArena, packetHeaderSize)

\* C6 as stated: for every expected value, modulo 256, a frame numbered
\* expected+1 is rejected as ahead (ErrPktSyncMul) and one numbered
\* expected-1 as behind (ErrPktSync), in readPacket and in the decompressor.
C6_ClassifiedModulo256 ==
  /\ ReachesProtocolCheck =>
       /\ FrameSeq = Inc8(lastR.pre.sequence) => lastR.err = "ErrPktSyncMul"
       /\ FrameSeq = Dec8(lastR.pre.sequence) => lastR.err = "ErrPktSync"
  /\ ReachesCompressionCheck =>
       /\ TransportSeq = Inc8(lastR.pre.compressionSequence)
            => lastR.cause = "ErrPktSyncMul"
       /\ TransportSeq = Dec8(lastR.pre.compressionSequence)
            => lastR.cause = "ErrPktSync"

\* the classification of the byte got against the counter expected, the
\* two compared as unsigned numbers
Classified(got, expected, err) ==
  /\ got = expected + 1 => err = "ErrPktSyncMul"
  /\ got = expected - 1 => err = "ErrPktSync"
  /\ expected = 255 /\ got = 0 => err = "ErrPktSync"
  /\ expected = 0 /\ got = 255 => err = "ErrPktSyncMul"

\* C6 amended: a frame numbered expected+1 <= 255 is rejected as ahead and
\* one numbered expected-1 >= 0 as behind; at the wrap the bytes are
\* compared as numbers, so 0 after 255 is rejected as behind and 255 where
\* 0 is expected as ahead; in readPacket and in the decompressor.
C6_Classified ==
  /\ ReachesProtocolCheck =>
       Classified(FrameSeq, lastR.pre.sequence, lastR.err)
  /\ ReachesCompressionCheck =>
       Classified(TransportSeq, lastR.pre.compressionSequence, lastR.cause)

\* the decompressor met frame 0 where it expected 255
C6_Witness ==
  /\ ReachesCompressionCheck
  /\ lastR.pre.compressionSequence = 255
  /\ TransportSeq = 0
  /\ lastR.cause = "ErrPktSync"

ArenaSame == pd.buffer = lastR.preArena.buffer /\ pd.index = lastR.preArena.index

\* C7 as stated: a rejection for a sequence mismatch leaves the expected
\* counter and the arena's bytes, index and length as they were.
C7_RejectionChangesNothing ==
  /\ ProtocolMismatch => rc.sequence = lastR.pre.sequence /\ ArenaSame
  /\ CompressionMismatch =>
       rc.compressionSequence = lastR.pre.compressionSequence /\ ArenaSame

\* C7 amended: a rejection leaves the expected counter as it was.  A
\* rejection by the decompressor leaves the arena's pending bytes as they
\* were, and its index and length too unless the arena was drained, when
\* both are reset to 0.  A rejection by readPacket leaves the arena
\* untouched without compression; with compression the arena's index
\* stands just past the 4 header bytes of the rejected frame.
C7_RejectionEffect ==
  /\ ProtocolMismatch =>
       /\ rc.sequence = lastR.pre.sequence
       /\ ~lastR.compress => pd = lastR.preArena
       /\ lastR.compress =>
            /\ pd.index >= packetHeaderSize
            /\ pd.buffer[pd.index] # rc.sequence
            /\ FreshRead /\ Aligned =>
                 SubSeq(pd.buffer, pd.index - packetHeaderSize + 1, pd.index)
                   = lastW.frames[1].header
  /\ CompressionMismatch =>
       /\ rc.compressionSequence = lastR.pre.compressionSequence
       /\ Pending(pd) = Pending(lastR.preArena)
       /\ IF /\ lastR.preArena.index > 0
             /\ lastR.preArena.index = Len(lastR.preArena.buffer)
          THEN pd.index = 0 /\ pd.buffer = <<>>
          ELSE ArenaSame

\* the decompressor rejected a frame with the arena drained by earlier reads
C7_Witness ==
  /\ CompressionMismatch
  /\ lastR.preArena.index > 0
  /\ pd.index = 0

\* C8 as stated: when readPacket fails for a sequence mismatch on either
\* counter (and no cancellation cause is returned in its place), the
\* connection is closed by the time it returns.
C8_MismatchCloses ==
  ProtocolMismatch \/ (CompressionMismatch /\ ~lastR.pre.canceled)
    => rc.closed

\* C9 as stated: an isolated zero-length packet is written as one frame
\* declaring 0; reading it with no fragment accumulated fails with
\* MalformedPacket and closes the connection; a frame declaring 0 after
\* accumulated fragments returns the accumulation.
C9_ZeroLengthMalformed ==
  /\ WroteOk /\ lastW.payload = <<>> =>
       /\ Len(lastW.frames) = 1
       /\ DeclaredLength(lastW.frames[1]) = 0
       /\ lastW.frames[1].body = <<>>
  /\ Paired /\ lastW.payload = <<>> =>
       lastR.err = "ErrMalformPkt" /\ rc.closed
  /\ Paired /\ lastW.payload # <<>> /\ Len(lastW.payload) % maxPacketSize = 0 =>
       /\ lastR.err = "nil"
       /\ lastR.fragments >= 1
       /\ lastR.data = lastW.payload

\* C9 amended: as stated, except that the read fails with the generic
\* invalid-connection error (ErrInvalidConn), MalformedPacket being logged.
C9_ZeroLength ==
  /\ WroteOk /\ lastW.payload = <<>> =>
       /\ Len(lastW.frames) = 1
       /\ DeclaredLength(lastW.frames[1]) = 0
       /\ lastW.frames[1].body = <<>>
  /\ Paired /\ lastW.payload = <<>> =>
       /\ lastR.err = "ErrInvalidConn"
       /\ lastR.logged = "ErrMalformPkt"
       /\ rc.closed
  /\ Paired /\ lastW.payload # <<>> /\ Len(lastW.payload) % maxPacketSize = 0 =>
       /\ lastR.err = "nil"
       /\ lastR.fragments >= 1
       /\ lastR.data = lastW.payload

\* the zero-length packet went through the compressor and was refused
C9_Witness ==
  /\ Paired
  /\ lastW.payload = <<>>
  /\ lastW.compress
  /\ lastR.logged = "ErrMalformPkt"
  /\ rc.closed

\* C10 as stated: writePacket returns a retryable error only when no byte
\* of the packet has reached the transport.
C10_RetryableOnlyBeforeAnyByte ==
  Wrote /\ lastW.err \in {"errBadConnNoWrite", "ErrBadConn"} =>
    lastW.sent = <<>>

(***************************************************************************)
(* The stale-connection check                                              *)
(***************************************************************************)
\* the step is a call of writePacket
WriteStep == ops' = ops + 1

\* clearing the read deadline fails in the call about to be made
ClearFails == mc.readTimeout # 0 /\ tp.rdlFail

\* the liveness probe, if it runs, fails in the call about to be made
ProbeFails == mc.checkConnLiveness /\ tp.probeFail

\* the call about to be made is on a stale connection with a packet that
\* is not oversized
StaleCall == WriteStep /\ mc.reset /\ lastW'.err # "ErrPktTooLarge"

\* a failed check: closed, ErrBadConn, nothing sent, sequence unchanged
CheckFailedEffect ==
  /\ lastW'.err = "ErrBadConn"
  /\ mc'.closed
  /\ lastW'.sent = <<>>
  /\ lastW'.frames = <<>>
  /\ net' = net
  /\ mc'.sequence = mc.sequence

\* C11 as stated: on a stale connection with a packet not oversized the
\* flag is cleared and the probe runs before any byte is written; a failed
\* clearing or probe closes the connection and returns ErrBadConn with
\* nothing transmitted and the sequence unchanged; without the flag the
\* probe does not run.
C11_ProbeAlwaysRuns ==
  [][/\ StaleCall =>
          /\ ~mc'.reset
          /\ ~ClearFails => lastW'.probed
          /\ ClearFails \/ ProbeFails => CheckFailedEffect
          /\ lastW'.err = "ErrBadConn" => lastW'.sent = <<>>
     /\ WriteStep /\ ~mc.reset => ~lastW'.probed /\ ~lastW'.rdlCleared]_vars

\* C11 amended: on a stale connection with a packet not oversized the flag
\* is cleared; the read deadline is cleared if a read timeout is
\* configured, and the probe runs if liveness checking is configured and
\* the clearing did not fail; a failed clearing or probe closes the
\* connection and returns ErrBadConn with nothing transmitted and the
\* sequence unchanged, and otherwise the frames are written after the
\* check; without the flag neither runs.
C11_StaleCheck ==
  [][/\ StaleCall =>
          /\ ~mc'.reset
          /\ lastW'.rdlCleared = (mc.readTimeout # 0)
          /\ lastW'.probed = (mc.checkConnLiveness /\ ~ClearFails)
          /\ ClearFails \/ ProbeFails => CheckFailedEffect
          /\ ~(ClearFails \/ ProbeFails) => lastW'.err # "ErrBadConn"
          /\ lastW'.err = "ErrBadConn" => lastW'.sent = <<>>
     /\ WriteStep /\ ~mc.reset => ~lastW'.probed /\ ~lastW'.rdlCleared]_vars

\* the probe failed on a stale connection and the call gave ErrBadConn
C11_Witness ==
  /\ Wrote
  /\ lastW.pre.reset
  /\ lastW.probed
  /\ lastW.err = "ErrBadConn"
  /\ mc.closed
  /\ lastW.sent = <<>>

\* C12: writePacket of a payload longer than mc.maxAllowedPacket returns
\* ErrPktTooLarge and does nothing else: no byte sent, no deadline armed, no
\* stale check, the connection (stale flag, both sequence counters, not
\* closed), the transport, the compression buffer and the caller's buffer
\* as they were; a payload of exactly mc.maxAllowedPacket bytes is accepted.
C12_Oversized ==
  [][/\ WriteStep /\ Len(lastW'.payload) > mc.maxAllowedPacket =>
          /\ lastW'.err = "ErrPktTooLarge"
          /\ lastW'.sent = <<>>
          /\ net' = net
          /\ lastW'.armed = 0
          /\ ~lastW'.probed /\ ~lastW'.rdlCleared
          /\ tp' = tp
          /\ mc' = mc
          /\ pc' = pc
          /\ lastW'.buf = <<0, 0, 0, 0>> \o lastW'.payload
     /\ WriteStep /\ Len(lastW'.payload) <= mc.maxAllowedPacket =>
          lastW'.err # "ErrPktTooLarge"]_vars

\* an oversized packet was refused on a stale connection with a write
\* timeout, and the connection is still stale and open
C12_Witness ==
  /\ Wrote
  /\ lastW.err = "ErrPktTooLarge"
  /\ Len(lastW.payload) = lastW.pre.maxAllowedPacket + 1
  /\ lastW.pre.reset
  /\ lastW.pre.writeTimeout > 0
  /\ mc.reset
  /\ ~mc.closed

\* a packet of exactly the largest allowed length was written in full
C12_Accepted ==
  /\ WroteOk
  /\ Len(lastW.payload) = lastW.pre.maxAllowedPacket

\* the last writePacket failed in a write or in arming the write deadline
WriteIoFailed ==
  Wrote /\ lastW.err \notin {"nil", "ErrPktTooLarge", "ErrBadConn"}

\* the last readPacket failed in a read of the header or of the body
ReadIoFailed ==
  HasReadPacket /\ lastR.err # "nil" /\ lastR.cause \in {"io", "zlib"}

\* C13 as stated: when an I/O operation of readPacket or writePacket fails
\* (header read, body read, frame write, setting the write deadline) with
\* the cancellation cause set, the call returns that cause and does not
\* close the connection.
C13_CancelledCauseReturned ==
  /\ WriteIoFailed /\ lastW.pre.canceled =>
       lastW.err = "canceled" /\ ~mc.closed
  /\ ReadIoFailed /\ lastR.pre.canceled =>
       lastR.err = "canceled" /\ ~rc.closed

(***************************************************************************)
(* The decompression arena                                                 *)
(***************************************************************************)
\* C15: 0 <= index <= length <= capacity in every state of the arena,
\* after successful and failed readNext calls alike.
C15_ArenaInvariant ==
  /\ 0 <= pd.index
  /\ pd.index <= Len(pd.buffer)
  /\ Len(pd.buffer) <= pd.cap

\* the arena was reallocated with pending bytes and then read in part
C15_Witness ==
  /\ lastN.op = "readNext"
  /\ pd.cap > defaultDecompressBufferSize
  /\ 0 < pd.index
  /\ pd.index < Len(pd.buffer)

\* no readNext call has failed
NeverFailed == lastN.err \in {"none", "nil"}

\* C14 as stated: the arena's capacity is at most the larger of the largest
\* readNext request so far and the current unread backlog.
C14_CapacityWithinRequestOrBacklog ==
  pd.cap <= Max(lastN.maxNeed, Len(pd.buffer) - pd.index)

\* C14 amended: the arena's capacity is at most the larger of its initial
\* capacity defaultDecompressBufferSize and (largest request so far - 1 +
\* the largest length a frame can declare); while no call has failed it is
\* at most the larger of defaultDecompressBufferSize and the largest
\* backlog held right after a pull.  It does not depend on the number of
\* bytes processed.
C14_Capacity ==
  /\ pd.cap <= Max(defaultDecompressBufferSize,
                   lastN.maxNeed - 1 + maxPacketSize)
  /\ NeverFailed => pd.cap <= Max(defaultDecompressBufferSize, lastN.peak)

\* a reallocation made the capacity exactly the backlog after the pull
C14_Witness ==
  /\ lastN.op = "readNext"
  /\ lastN.err = "nil"
  /\ lastN.preArena.index > 0
  /\ pd.cap > defaultDecompressBufferSize
  /\ pd.cap = lastN.peak

\* C16: every slice readNext returns is the head of the bytes that arrived
\* and were not yet served, of the length asked; the pending bytes of the
\* arena are the next bytes due (all of them once the transport is read
\* empty); and a call that finds enough pending bytes pulls no frame.
C16_StreamOrder ==
  /\ lastN.inOrder
  /\ Pending(pd) = Take(lastN.due, Len(Pending(pd)))
  /\ net = <<>> /\ ~lastN.lost /\ NeverFailed => Pending(pd) = lastN.due
  /\ lastN.op = "readNext" /\ ~MustPull(lastN.preArena, lastN.need) =>
       /\ ~lastN.pulled
       /\ lastN.err = "nil"

\* a call carried pending bytes through a reallocation and served them
\* together with bytes of the frame it pulled
C16_Witness ==
  /\ lastN.op = "readNext"
  /\ lastN.err = "nil"
  /\ lastN.pulled
  /\ lastN.preArena.index > 0
  /\ lastN.preArena.index < Len(lastN.preArena.buffer)
  /\ pd.cap > lastN.preArena.cap
  /\ lastN.need > Len(Pending(lastN.preArena))
  /\ Len(lastN.data) = lastN.need

(***************************************************************************)
(* The sequence counters                                                   *)
(***************************************************************************)
\* the bytes of plain frames on the wire
RECURSIVE Wire(_)
Wire(frames) ==
  IF frames = <<>> THEN <<>>
  ELSE frames[1].header \o frames[1].body \o Wire(Tail(frames))

\* the plain frames a packet of len bytes needs
FramesNeeded(len) == len \div maxPacketSize + 1

\* C17: the i-th frame writePacket confirms carries the sequence the call
\* started with plus i-1 modulo 256; the counter ends at the starting value
\* plus the number of confirmed frames modulo 256; a successful call
\* confirms every frame the packet needs; a call that fails has not counted
\* the frame that failed; without compression the confirmed frames are on
\* the wire in full and the frame that failed is not.
C17_WriteSequence ==
  Wrote =>
    /\ \A i \in 1..Len(lastW.frames) :
         /\ lastW.frames[i].seq = (lastW.pre.sequence + i - 1) % 256
         /\ lastW.frames[i].header[4] = lastW.frames[i].seq
    /\ mc.sequence = (lastW.pre.sequence + Len(lastW.frames)) % 256
    /\ lastW.err = "nil" =>
         Len(lastW.frames) = FramesNeeded(Len(lastW.payload))
    /\ lastW.err # "nil" =>
         Len(lastW.frames) < FramesNeeded(Len(lastW.payload))
    /\ ~lastW.compress =>
         /\ Take(lastW.sent, Len(Wire(lastW.frames))) = Wire(lastW.frames)
         /\ lastW.err = "nil" => lastW.sent = Wire(lastW.frames)
         /\ lastW.err # "nil" =>
              Len(lastW.sent) - Len(Wire(lastW.frames))
                < packetHeaderSize
                    + FrameSize(Len(lastW.payload)
                                  - maxPacketSize * Len(lastW.frames))

\* the second frame of a packet failed part-way: one frame counted, the
\* counter one further
C17_Witness ==
  /\ Wrote
  /\ ~lastW.compress
  /\ lastW.err = "ErrInvalidConn"
  /\ Len(lastW.frames) = 1
  /\ Len(lastW.sent) > Len(Wire(lastW.frames))
  /\ mc.sequence = Inc8(lastW.pre.sequence)

\* the reader stands where the writer stands: nothing unread on the
\* transport, nothing pending in the arena, both counters equal
InStep ==
  /\ net = <<>>
  /\ Pending(pd) = <<>>
  /\ rc.sequence = mc.sequence
  /\ rc.compressionSequence = mc.compressionSequence

\* C18 as stated: after a successful writePacket and the paired readPacket
\* the reader has consumed all and only the writer's frames, its counters
\* equal the writer's, and it takes a following packet without a sequence
\* mismatch.
C18_InStepAfterAnyPacket ==
  /\ Paired => InStep /\ ~rc.closed
  /\ HasReadPacket => lastR.cause \notin SyncErrors

\* C18 amended: as stated, for packets of at least 1 byte.  After a packet
\* of 0 bytes the reader has consumed the writer's frame and its counters
\* equal the writer's, but it has closed the connection.
C18_InStep ==
  /\ Paired => InStep
  /\ Paired /\ Len(lastW.payload) >= 1 => lastR.err = "nil" /\ ~rc.closed
  /\ Paired /\ Len(lastW.payload) = 0 => rc.closed
  /\ HasReadPacket => lastR.cause \notin SyncErrors

\* a second packet went through the compressor and the used arena and was
\* taken by the reader, which is in step again
C18_Witness ==
  /\ Paired
  /\ lastW.compress
  /\ lastR.preArena.index > 0
  /\ lastR.err = "nil"
  /\ lastR.data = lastW.payload
  /\ InStep

\* the step is a call of readPacket
ReadStep == lastR.op = "none" /\ lastR'.op = "read"

\* C19: without compression writePacket and readPacket leave the
\* compression sequence, the arena and the compression buffer as they were,
\* whatever the outcome; with compression the protocol sequence moves by
\* one per plain frame the transceiver confirms written, or whose header it
\* accepts, and not otherwise.
C19_LayersIndependent ==
  [][/\ WriteStep /\ ~lastW'.compress =>
          /\ mc'.compressionSequence = mc.compressionSequence
          /\ pc' = pc
          /\ pd' = pd
          /\ lastW'.cframes = <<>>
     /\ ReadStep /\ ~lastR'.compress =>
          /\ rc'.compressionSequence = rc.compressionSequence
          /\ pd' = pd
          /\ pc' = pc
     /\ WriteStep /\ lastW'.compress =>
          mc'.sequence = (mc.sequence + Len(lastW'.frames)) % 256
     /\ ReadStep /\ lastR'.compress =>
          /\ rc'.sequence \in {(rc.sequence + lastR'.fragments) % 256,
                               (rc.sequence + lastR'.fragments + 1) % 256}
          /\ lastR'.err = "nil" \/ lastR'.logged = "ErrMalformPkt" =>
               rc'.sequence = (rc.sequence + lastR'.fragments + 1) % 256
          /\ lastR'.err \in SyncErrors =>
               rc'.sequence = (rc.sequence + lastR'.fragments) % 256]_vars

\* an uncompressed read failed in the body of the second frame of a packet
\* whose write had failed there
C19_Witness ==
  /\ HasReadPacket
  /\ ~lastR.compress
  /\ lastR.err = "ErrInvalidConn"
  /\ lastR.cause = "io"
  /\ lastR.fragments = 1
  /\ lastW.err = "ErrInvalidConn"
  /\ pd = EmptyArena
  /\ pc = <<>>

(***************************************************************************)
(* The compressed frames on the wire                                       *)
(***************************************************************************)
\* the bytes of compressed frames on the wire
RECURSIVE CWire(_)
CWire(cframes) ==
  IF cframes = <<>> THEN <<>>
  ELSE cframes[1].header \o cframes[1].body \o CWire(Tail(cframes))

\* the bytes the compressed frames carry
RECURSIVE Carried(_)
Carried(cframes) ==
  IF cframes = <<>> THEN <<>>
  ELSE cframes[1].piece \o Carried(Tail(cframes))

\* C20: every frame the compressor has written is 7 header bytes and a
\* body of the length the header declares, at most maxPacketSize; its
\* sequence byte is the compression sequence of the moment, which moves by
\* one per frame written; its uncompressed length is 0 with the piece as
\* body, or the piece's length with the piece's encoding as body; the
\* pieces of the frames add up to the chunks the transceiver had confirmed;
\* the frame left in the buffer has the length its header declares.
C20_CompressedFrames ==
  Wrote /\ lastW.compress =>
    /\ \A i \in 1..Len(lastW.cframes) :
         LET f == lastW.cframes[i]
         IN  /\ Len(f.header) = compressedHeaderSize
             /\ Len(f.body) = HeaderPayload(f.header)
             /\ Len(f.body) <= maxPacketSize
             /\ HeaderSequence(f.header)
                  = (lastW.pre.compressionSequence + i - 1) % 256
             /\ f.piece # <<>>
             /\ \/ /\ HeaderUncompressedLength(f.header) = 0
                   /\ f.body = f.piece
                \/ /\ HeaderUncompressedLength(f.header) = Len(f.piece)
                   /\ f.body = compress(f.piece)
                   /\ decompress(f.body, Len(f.piece)).out = f.piece
    /\ mc.compressionSequence
         = (lastW.pre.compressionSequence + Len(lastW.cframes)) % 256
    /\ Take(lastW.sent, Len(CWire(lastW.cframes))) = CWire(lastW.cframes)
    /\ Take(Carried(lastW.cframes), Len(Wire(lastW.frames)))
         = Wire(lastW.frames)
    /\ lastW.err = "nil" =>
         /\ lastW.sent = CWire(lastW.cframes)
         /\ Carried(lastW.cframes) = Wire(lastW.frames)
    /\ pc # <<>> =>
         Len(pc) = compressedHeaderSize
                     + HeaderPayload(Take(pc, compressedHeaderSize))

\* a packet went out in a literal and a compressed frame, the compression
\* sequence wrapping on the way
C20_Witness ==
  /\ WroteOk
  /\ lastW.compress
  /\ Len(lastW.cframes) >= 3
  /\ \E i \in 1..Len(lastW.cframes) : IsCompressed(lastW.cframes[i])
  /\ \E i \in 1..Len(lastW.cframes) : ~IsCompressed(lastW.cframes[i])
  /\ mc.compressionSequence < lastW.pre.compressionSequence

=============================================================================
